---- MODULE Spec2Model ----
(***************************************************************************)
(* Model of visualcalc.py: the formula engine (get_dependencies,           *)
(* evaluate_element, recalc_all) and the MainWindow handlers that own the  *)
(* element registry and the format setting.                                *)
(*                                                                         *)
(* A content string is modelled as the sequence of its lexical tokens.     *)
(* Numbers are exact rationals n/d tagged with their Python type.          *)
(***************************************************************************)
EXTENDS Integers, Sequences, FiniteSets, TLC

VARIABLES
    elements,         \* MainWindow.elements: insertion-ordered dict, a sequence of element records
    element_counter,  \* MainWindow.element_counter
    current_format,   \* MainWindow.current_format: "NONE", "SCI" or "FIX"
    decimals,         \* MainWindow.decimals
    decimals_box,     \* text of MainWindow.decimals_box, a sequence of characters
    hashseed,         \* iteration order of the process's string sets (fixed per process)
    computed,         \* recalc_all: the per-pass cache
    idx,              \* recalc_all: number of registry entries the loop has visited
    pc                \* "idle" between handlers, "pass" inside recalc_all, "aborted" after an uncaught exception

vars == <<elements, element_counter, current_format, decimals, decimals_box,
          hashseed, computed, idx, pc>>

-----------------------------------------------------------------------------
(* Bounds of the model *)

\* largest value element_counter may reach by add_element
MaxCounter == 2

\* largest number of <Element> entries of a loaded file
MaxFileLen == 2

\* largest registry a recalculation pass is started on
MaxElems == 3

\* largest registry of the passes over the larger catalogues of formulas
MaxFormulaElems == 2

-----------------------------------------------------------------------------
(* Python values *)

Abs(x) == IF x < 0 THEN -x ELSE x

RECURSIVE GCD(_, _)
GCD(a, b) == IF b = 0 THEN a ELSE GCD(b, a % b)

\* a value: t is the Python type, n/d the number (d > 0, lowest terms), o names a non-numeric object
Val(t, n, d, o) == [t |-> t, n |-> n, d |-> d, o |-> o]

Norm(t, n, d) ==
    LET g == GCD(Abs(n), Abs(d))
        s == IF d < 0 THEN -1 ELSE 1
    IN  Val(t, (s * n) \div g, (s * d) \div g, "")

None == Val("None", 0, 1, "")
PyInt(n) == Val("int", n, 1, "")
PyFloat(n) == Val("float", n, 1, "")
PyBool(b) == Val("bool", IF b THEN 1 ELSE 0, 1, "")
PyObj(o) == Val("obj", 0, 1, o)

IsNumber(v) == v.t \in {"int", "float", "bool"}

\* isinstance(v, (int, float)): bool is a subclass of int
IsIntOrFloat(v) == v.t \in {"int", "float", "bool"}

\* isinstance(v, bool)
IsBool(v) == v.t = "bool"

\* an outcome of evaluating something: a value or a raised exception
Ok(v) == [exc |-> "", val |-> v]
Raise(e) == [exc |-> e, val |-> None]

\* result type of + - * on two numbers
ArithType(a, b) == IF a.t = "float" \/ b.t = "float" THEN "float" ELSE "int"

RECURSIVE IntPow(_, _)
IntPow(b, e) == IF e = 0 THEN 1 ELSE b * IntPow(b, e - 1)

\* a ** b for an integral exponent (the only exponents the catalogue uses)
PyPow(a, b) ==
    IF b.d # 1 THEN Raise("Unmodelled")
    ELSE IF b.n >= 0
         THEN Ok(Norm(ArithType(a, b), IntPow(a.n, b.n), IntPow(a.d, b.n)))
    ELSE IF a.n = 0 THEN Raise("ZeroDivisionError")
    ELSE Ok(Norm("float", IntPow(a.d, -b.n), IntPow(a.n, -b.n)))

\* the operators with a division by zero giving an infinite float instead of raising
BinaryOp_DivInf(op, a, b) ==
    IF ~(IsNumber(a) /\ IsNumber(b)) THEN Raise("TypeError")
    ELSE CASE op = "Add"  -> Ok(Norm(ArithType(a, b), a.n * b.d + b.n * a.d, a.d * b.d))
           [] op = "Sub"  -> Ok(Norm(ArithType(a, b), a.n * b.d - b.n * a.d, a.d * b.d))
           [] op = "Mult" -> Ok(Norm(ArithType(a, b), a.n * b.n, a.d * b.d))
           [] op = "Div"  -> IF b.n = 0 THEN Ok(Val("inf", 1, 0, ""))
                             ELSE Ok(Norm("float", a.n * b.d, a.d * b.n))
           [] op = "Pow"  -> PyPow(a, b)
           [] op = "BitXor" -> Raise("Unmodelled")
           [] op = "Lt"   -> Ok(PyBool(a.n * b.d < b.n * a.d))

\* the binary operators of the evaluated tree
BinaryOp(op, a, b) ==
    IF ~(IsNumber(a) /\ IsNumber(b)) THEN Raise("TypeError")
    ELSE CASE op = "Add"  -> Ok(Norm(ArithType(a, b), a.n * b.d + b.n * a.d, a.d * b.d))
           [] op = "Sub"  -> Ok(Norm(ArithType(a, b), a.n * b.d - b.n * a.d, a.d * b.d))
           [] op = "Mult" -> Ok(Norm(ArithType(a, b), a.n * b.n, a.d * b.d))
           [] op = "Div"  -> IF b.n = 0 THEN Raise("ZeroDivisionError")
                             ELSE Ok(Norm("float", a.n * b.d, a.d * b.n))
           [] op = "Pow"  -> PyPow(a, b)
           [] op = "BitXor" -> Raise("Unmodelled")
           [] op = "Lt"   -> Ok(PyBool(a.n * b.d < b.n * a.d))

\* truth value of a Python object
Truthy(v) == IF IsNumber(v) THEN v.n # 0 ELSE v.t # "None"

\* the helper with its two branches exchanged
IF_Exchanged(condition, val_if_true, val_if_false) ==
    IF Truthy(condition) THEN val_if_false ELSE val_if_true

IF_(condition, val_if_true, val_if_false) ==
    IF Truthy(condition) THEN val_if_true ELSE val_if_false

-----------------------------------------------------------------------------
(* Lexical tokens and ast.parse(expr, mode='eval') *)

\* the integer literals of the model and their values
NumTok == ("0" :> 0) @@ ("1" :> 1) @@ ("2" :> 2) @@ ("3" :> 3) @@ ("5" :> 5)

Punct == {"+", "-", "*", "/", "^", "<", "(", ")", "[", "]", ",", "."}

IsNum(t) == t \in DOMAIN NumTok
IsIdent(t) == ~IsNum(t) /\ t \notin Punct

\* precedence level of a binary operator token, loosest first; 0 for other tokens
Prec(t) == CASE t = "<" -> 1
             [] t = "^" -> 2
             [] t \in {"+", "-"} -> 3
             [] t \in {"*", "/"} -> 4
             [] OTHER -> 0

OpName(t) == CASE t = "<" -> "Lt"
               [] t = "^" -> "BitXor"
               [] t = "+" -> "Add"
               [] t = "-" -> "Sub"
               [] t = "*" -> "Mult"
               [] t = "/" -> "Div"

\* nesting depth in front of token i
RECURSIVE Depth(_, _)
Depth(toks, i) ==
    IF i <= 1 THEN 0
    ELSE Depth(toks, i - 1)
         + (IF toks[i - 1] \in {"(", "["} THEN 1 ELSE 0)
         - (IF toks[i - 1] \in {")", "]"} THEN 1 ELSE 0)

Balanced(toks) ==
    /\ Depth(toks, Len(toks) + 1) = 0
    /\ \A i \in 1..(Len(toks) + 1) : Depth(toks, i) >= 0

\* token i ends an operand, so an operator after it is binary
EndsOperand(t) == IsNum(t) \/ IsIdent(t) \/ t \in {")", "]"}

\* positions of the binary operators outside all brackets
TopOps(toks) ==
    {i \in 2..Len(toks) : /\ Prec(toks[i]) > 0
                          /\ Depth(toks, i) = 0
                          /\ EndsOperand(toks[i - 1])}

\* positions of the commas directly inside the outermost bracket pair
TopCommas(toks) == {i \in 1..Len(toks) : toks[i] = "," /\ Depth(toks, i) = 0}

SetMax(S) == CHOOSE x \in S : \A y \in S : y <= x
SetMin(S) == CHOOSE x \in S : \A y \in S : x <= y

Slice(s, a, b) == SubSeq(s, a, b)

SyntaxError == [k |-> "SyntaxError"]

RECURSIVE ast_parse(_)
RECURSIVE ParseArgs(_)

\* the comma-separated expressions of an argument or element list
ParseArgs(toks) ==
    IF toks = <<>> THEN <<>>
    ELSE LET cs == TopCommas(toks)
         IN  IF cs = {} THEN <<ast_parse(toks)>>
             ELSE LET c == SetMin(cs)
                  IN  <<ast_parse(Slice(toks, 1, c - 1))>>
                      \o ParseArgs(Slice(toks, c + 1, Len(toks)))

HasError(nodes) == \E i \in 1..Len(nodes) : nodes[i].k = "SyntaxError"

\* a node over parsed children, or the syntax error of a child
MkBinary(low, op, l, r) ==
    IF l.k = "SyntaxError" \/ r.k = "SyntaxError" THEN SyntaxError
    ELSE IF low = 1 THEN [k |-> "Compare", op |-> op, left |-> l, right |-> r]
    ELSE [k |-> "BinOp", op |-> op, left |-> l, right |-> r]

MkUnary(x) ==
    IF x.k = "SyntaxError" THEN SyntaxError
    ELSE [k |-> "UnaryOp", op |-> "USub", operand |-> x]

MkCall(f, args) ==
    IF HasError(args) \/ f.k = "SyntaxError" THEN SyntaxError
    ELSE [k |-> "Call", func |-> f, args |-> args]

MkParen(args, commas) ==
    IF HasError(args) THEN SyntaxError
    ELSE IF Len(args) = 1 /\ commas = {} THEN args[1]
    ELSE [k |-> "Tuple", elts |-> args]

MkList(elts) == IF HasError(elts) THEN SyntaxError ELSE [k |-> "List", elts |-> elts]

MkAttribute(v, attr) ==
    IF v.k = "SyntaxError" THEN SyntaxError
    ELSE [k |-> "Attribute", value |-> v, attr |-> attr]

\* the operator the expression splits at: the last of the loosest level (left-associative)
SplitAt(toks, ops) ==
    SetMax({i \in ops : \A j \in ops : Prec(toks[i]) <= Prec(toks[j])})

ParseBinary(toks, at) ==
    MkBinary(Prec(toks[at]), OpName(toks[at]),
             ast_parse(Slice(toks, 1, at - 1)),
             ast_parse(Slice(toks, at + 1, Len(toks))))

ParseBracketed(toks, open) ==
    IF open = 1
    THEN MkParen(ParseArgs(Slice(toks, 2, Len(toks) - 1)),
                 TopCommas(Slice(toks, 2, Len(toks) - 1)))
    ELSE MkCall(ast_parse(Slice(toks, 1, open - 1)),
                ParseArgs(Slice(toks, open + 1, Len(toks) - 1)))

ParseSplit(toks, ops) ==
    IF ops # {} THEN ParseBinary(toks, SplitAt(toks, ops))
    ELSE IF toks[1] = "-" THEN MkUnary(ast_parse(Tail(toks)))
    ELSE IF Len(toks) = 1
    THEN IF IsNum(toks[1]) THEN [k |-> "Constant", value |-> PyInt(NumTok[toks[1]])]
         ELSE IF IsIdent(toks[1]) THEN [k |-> "Name", id |-> toks[1]]
         ELSE SyntaxError
    ELSE IF toks[Len(toks)] = ")"
    THEN ParseBracketed(toks, SetMax({i \in 1..Len(toks) : toks[i] = "(" /\ Depth(toks, i) = 0}))
    ELSE IF toks[1] = "[" /\ toks[Len(toks)] = "]" /\ Depth(toks, Len(toks)) = 1
    THEN MkList(ParseArgs(Slice(toks, 2, Len(toks) - 1)))
    ELSE IF Len(toks) >= 3 /\ toks[Len(toks) - 1] = "." /\ IsIdent(toks[Len(toks)])
    THEN MkAttribute(ast_parse(Slice(toks, 1, Len(toks) - 2)), toks[Len(toks)])
    ELSE SyntaxError

\* the expression tree of a token sequence: binary operators are left-associative,
\* comparison binds loosest, then ^, then + -, then * /, then unary minus
ast_parse(toks) ==
    IF toks = <<>> \/ ~Balanced(toks) THEN SyntaxError
    ELSE ParseSplit(toks, TopOps(toks))

-----------------------------------------------------------------------------
(* XorToPow, get_dependencies and the evaluation of a compiled tree *)

RECURSIVE XorToPow(_)
RECURSIVE XorToPowAll(_)

XorToPowAll(nodes) ==
    IF nodes = <<>> THEN <<>>
    ELSE <<XorToPow(Head(nodes))>> \o XorToPowAll(Tail(nodes))

\* NodeTransformer: every BinOp below the node gets BitXor replaced by Pow, its shape kept
XorToPow(node) ==
    CASE node.k = "BinOp" ->
            [k |-> "BinOp",
             op |-> IF node.op = "BitXor" THEN "Pow" ELSE node.op,
             left |-> XorToPow(node.left), right |-> XorToPow(node.right)]
      [] node.k = "Compare" ->
            [node EXCEPT !.left = XorToPow(node.left), !.right = XorToPow(node.right)]
      [] node.k = "UnaryOp" -> [node EXCEPT !.operand = XorToPow(node.operand)]
      [] node.k = "Call" ->
            [node EXCEPT !.func = XorToPow(node.func), !.args = XorToPowAll(node.args)]
      [] node.k \in {"Tuple", "List"} -> [node EXCEPT !.elts = XorToPowAll(node.elts)]
      [] node.k = "Attribute" -> [node EXCEPT !.value = XorToPow(node.value)]
      [] OTHER -> node

RECURSIVE NameIds(_)
RECURSIVE NameIdsAll(_)

NameIdsAll(nodes) ==
    IF nodes = <<>> THEN {} ELSE NameIds(Head(nodes)) \cup NameIdsAll(Tail(nodes))

\* the walk without the arguments of calls
NameIds_NoArgs(node) ==
    CASE node.k = "Name" -> {node.id}
      [] node.k \in {"BinOp", "Compare"} -> NameIds(node.left) \cup NameIds(node.right)
      [] node.k = "UnaryOp" -> NameIds(node.operand)
      [] node.k = "Call" -> NameIds(node.func)
      [] node.k \in {"Tuple", "List"} -> NameIdsAll(node.elts)
      [] node.k = "Attribute" -> NameIds(node.value)
      [] OTHER -> {}

\* {node.id for node in ast.walk(tree) if isinstance(node, ast.Name)}
NameIds(node) ==
    CASE node.k = "Name" -> {node.id}
      [] node.k \in {"BinOp", "Compare"} -> NameIds(node.left) \cup NameIds(node.right)
      [] node.k = "UnaryOp" -> NameIds(node.operand)
      [] node.k = "Call" -> NameIds(node.func) \cup NameIdsAll(node.args)
      [] node.k \in {"Tuple", "List"} -> NameIdsAll(node.elts)
      [] node.k = "Attribute" -> NameIds(node.value)
      [] OTHER -> {}

get_dependencies(expr) ==
    LET tree == ast_parse(expr)
    IN  IF tree.k = "SyntaxError" THEN {} ELSE NameIds(tree)

EmptyMap == [x \in {} |-> None]

\* IF(...) or another called object applied to evaluated arguments
CallObject(f, a) ==
    IF a.exc # "" THEN Raise(a.exc)
    ELSE IF f.t = "obj" /\ f.o = "IF"
    THEN IF Len(a.vals) = 3 THEN Ok(IF_(a.vals[1], a.vals[2], a.vals[3]))
         ELSE Raise("TypeError")
    ELSE IF f.t = "mathattr" THEN Raise("Unmodelled")
    ELSE Raise("TypeError")

Negate(x) ==
    IF x.exc # "" THEN x
    ELSE IF ~IsNumber(x.val) THEN Raise("TypeError")
    ELSE Ok(Norm(IF x.val.t = "float" THEN "float" ELSE "int", -x.val.n, x.val.d))

GetAttr(v, attr) ==
    IF v.exc # "" THEN v
    ELSE IF v.val.t = "obj" /\ v.val.o = "math" THEN Ok(Val("mathattr", 0, 1, attr))
    ELSE Raise("AttributeError")

Collect(a, o) == IF a.exc # "" THEN Raise(a.exc) ELSE Ok(PyObj(o))

RECURSIVE Eval(_, _)
RECURSIVE EvalAll(_, _)

Prepend(h, t) == IF t.exc # "" THEN t ELSE [exc |-> "", vals |-> <<h.val>> \o t.vals]

ConsVals(h, nodes, env) ==
    IF h.exc # "" THEN [exc |-> h.exc, vals |-> <<>>]
    ELSE Prepend(h, EvalAll(nodes, env))

\* the arguments of a call, left to right: the values, or the first exception
EvalAll(nodes, env) ==
    IF nodes = <<>> THEN [exc |-> "", vals |-> <<>>]
    ELSE ConsVals(Eval(Head(nodes), env), Tail(nodes), env)

ApplyRight(op, l, r) == IF r.exc # "" THEN r ELSE BinaryOp(op, l.val, r.val)

EvalBinary(op, l, right, env) ==
    IF l.exc # "" THEN l ELSE ApplyRight(op, l, Eval(right, env))

EvalCall(f, args, env) ==
    IF f.exc # "" THEN f ELSE CallObject(f.val, EvalAll(args, env))

\* eval(compile(tree), {"__builtins__": {}, "math": math, "IF": IF}, env)
Eval(node, env) ==
    CASE node.k = "Constant" -> Ok(node.value)
      [] node.k = "Name" ->
            IF node.id \in DOMAIN env THEN Ok(env[node.id])
            ELSE IF node.id = "math" THEN Ok(PyObj("math"))
            ELSE IF node.id = "IF" THEN Ok(PyObj("IF"))
            ELSE Raise("NameError")
      [] node.k \in {"BinOp", "Compare"} ->
            EvalBinary(node.op, Eval(node.left, env), node.right, env)
      [] node.k = "UnaryOp" -> Negate(Eval(node.operand, env))
      [] node.k = "Call" -> EvalCall(Eval(node.func, env), node.args, env)
      [] node.k = "Attribute" -> GetAttr(Eval(node.value, env), node.attr)
      [] node.k = "Tuple" -> Collect(EvalAll(node.elts, env), "tuple")
      [] node.k = "List" -> Collect(EvalAll(node.elts, env), "list")

-----------------------------------------------------------------------------
(* Display strings *)

\* a display string: str(val) ("str"), a formatted number ("fix", "sci"), an
\* exception message ("circ", "unknown", "evalerr") or the empty string ("")
Disp(k, name, val, dec, exp) == [k |-> k, name |-> name, val |-> val, dec |-> dec, exp |-> exp]

EmptyStr == Disp("", "", None, 0, 0)
Str(v) == Disp("str", "", v, 0, 0)

\* the message without the element's name
CircularMsg_NoName(name) == Disp("circ", "", None, 0, 0)

\* "Circular dependency detected for element: " + name
CircularMsg(name) == Disp("circ", name, None, 0, 0)
\* f"Unknown variable: {dep}"
UnknownMsg(dep) == Disp("unknown", dep, None, 0, 0)
\* f"Error evaluating formula: {e}"
EvalErrorMsg(e) == Disp("evalerr", e, None, 0, 0)

NoExc == EmptyStr

-----------------------------------------------------------------------------
(* evaluate_element and recalc_all *)

Names(element_dict) == {element_dict[i].name : i \in 1..Len(element_dict)}

Lookup(element_dict, name) ==
    element_dict[CHOOSE i \in 1..Len(element_dict) : element_dict[i].name = name]

\* float(content): the content is one numeric literal
IsFloatText(content) == Len(content) = 1 /\ IsNum(content[1])
FloatOf(content) == PyFloat(NumTok[content[1]])

\* the order in which "for dep in deps" meets the members of the set: the process
\* fixes it per content; math and IF are skipped wherever they come
IterOrder(content, seed) ==
    SelectSeq(<<"math", "IF">>, LAMBDA x : x \in get_dependencies(content)) \o seed[content]

RECURSIVE evaluate_element(_, _, _, _)
RECURSIVE ResolveDeps(_, _, _, _, _, _)

\* env[dep] = evaluate_element(...): r is what the call gave
BindDep(r, deps, i, env, element_dict) ==
    IF r.exc # NoExc
    THEN [exc |-> r.exc, env |-> env, computed |-> r.computed, stack |-> r.stack]
    ELSE ResolveDeps(deps, i + 1, (deps[i] :> r.val) @@ env, r.computed, r.stack, element_dict)

\* the loop with a dependency that is no element skipped instead of raised
ResolveDeps_SkipUnknown(deps, i, env, cmp, stack, element_dict) ==
    IF i > Len(deps) THEN [exc |-> NoExc, env |-> env, computed |-> cmp, stack |-> stack]
    ELSE IF deps[i] \in {"math", "IF"} \/ deps[i] \notin Names(element_dict)
    THEN ResolveDeps(deps, i + 1, env, cmp, stack, element_dict)
    ELSE BindDep(evaluate_element(deps[i], cmp, stack, element_dict), deps, i, env, element_dict)

\* the loop "for dep in deps" from its i-th round on
ResolveDeps(deps, i, env, cmp, stack, element_dict) ==
    IF i > Len(deps) THEN [exc |-> NoExc, env |-> env, computed |-> cmp, stack |-> stack]
    ELSE IF deps[i] \in {"math", "IF"}
    THEN ResolveDeps(deps, i + 1, env, cmp, stack, element_dict)
    ELSE IF deps[i] \in Names(element_dict)
    THEN BindDep(evaluate_element(deps[i], cmp, stack, element_dict), deps, i, env, element_dict)
    ELSE [exc |-> UnknownMsg(deps[i]), env |-> env, computed |-> cmp, stack |-> stack]

\* lines 81-92: parse, rewrite ^ and evaluate the content under env
EvalFormula(tree, env) ==
    IF tree.k = "SyntaxError" THEN Raise("SyntaxError") ELSE Eval(XorToPow(tree), env)

\* the cache written before the exception is looked at
Finish_CacheFailure(name, r, d) ==
    IF r.exc # ""
    THEN [exc |-> EvalErrorMsg(r.exc), val |-> None,
          computed |-> (name :> None) @@ d.computed, stack |-> d.stack]
    ELSE [exc |-> NoExc, val |-> r.val,
          computed |-> (name :> r.val) @@ d.computed, stack |-> d.stack \ {name}]

\* the value returned without being written to the cache
Finish_NoStore(name, r, d) ==
    IF r.exc # ""
    THEN [exc |-> EvalErrorMsg(r.exc), val |-> None, computed |-> d.computed, stack |-> d.stack]
    ELSE [exc |-> NoExc, val |-> r.val, computed |-> d.computed, stack |-> d.stack \ {name}]

\* lines 91-96: the exception wrapped, or the value stored and the name taken off the stack
Finish(name, r, d) ==
    IF r.exc # ""
    THEN [exc |-> EvalErrorMsg(r.exc), val |-> None, computed |-> d.computed, stack |-> d.stack]
    ELSE [exc |-> NoExc, val |-> r.val,
          computed |-> (name :> r.val) @@ d.computed, stack |-> d.stack \ {name}]

AfterDeps(name, content, d) ==
    IF d.exc # NoExc
    THEN [exc |-> d.exc, val |-> None, computed |-> d.computed, stack |-> d.stack]
    ELSE Finish(name, EvalFormula(ast_parse(content), d.env), d)

EvaluateContent(name, content, cmp, stack, element_dict) ==
    IF IsFloatText(content)
    THEN [exc |-> NoExc, val |-> FloatOf(content),
          computed |-> (name :> FloatOf(content)) @@ cmp, stack |-> stack \ {name}]
    ELSE AfterDeps(name, content,
                   ResolveDeps(IterOrder(content, hashseed), 1, EmptyMap,
                               cmp, stack, element_dict))

\* a name met again while in progress answered with 0.0 instead of an exception
evaluate_element_NoCycleError(name, cmp, stack, element_dict) ==
    IF name \in DOMAIN cmp
    THEN [exc |-> NoExc, val |-> cmp[name], computed |-> cmp, stack |-> stack]
    ELSE IF name \in stack
    THEN [exc |-> NoExc, val |-> PyFloat(0), computed |-> cmp, stack |-> stack]
    ELSE EvaluateContent(name, Lookup(element_dict, name).content, cmp,
                         stack \cup {name}, element_dict)

\* the value or the exception of one element, with the cache and the in-progress
\* set as the call leaves them
evaluate_element(name, cmp, stack, element_dict) ==
    IF name \in DOMAIN cmp
    THEN [exc |-> NoExc, val |-> cmp[name], computed |-> cmp, stack |-> stack]
    ELSE IF name \in stack
    THEN [exc |-> CircularMsg(name), val |-> None, computed |-> cmp, stack |-> stack]
    ELSE EvaluateContent(name, Lookup(element_dict, name).content, cmp,
                         stack \cup {name}, element_dict)

\* the except branch taking the failed element out of the registry
StoreResult_DropFailed(element_dict, i, r) ==
    [els |-> IF r.exc = NoExc
             THEN [element_dict EXCEPT ![i].raw_result = r.val, ![i].result = Str(r.val)]
             ELSE SelectSeq(element_dict, LAMBDA e : e.name # element_dict[i].name),
     computed |-> r.computed]

\* the except branch passing over the exception without a word
StoreResult_Silent(element_dict, i, r) ==
    [els |-> IF r.exc = NoExc
             THEN [element_dict EXCEPT ![i].raw_result = r.val, ![i].result = Str(r.val)]
             ELSE element_dict,
     computed |-> r.computed]

\* lines 101-107: the try/except around one call of evaluate_element
StoreResult(element_dict, i, r) ==
    [els |-> [element_dict EXCEPT ![i].raw_result = IF r.exc = NoExc THEN r.val ELSE None,
                                  ![i].result = IF r.exc = NoExc THEN Str(r.val) ELSE r.exc],
     computed |-> r.computed]

\* the names a set shared by all calls would still hold: those whose resolution raised
Leaked(element_dict) ==
    {element_dict[j].name : j \in {k \in 1..Len(element_dict) :
        element_dict[k].raw_result = None /\ element_dict[k].result.k \in {"circ", "unknown", "evalerr"}}}

\* the loop body with one in-progress set kept instead of a new set() per element
RecalcStep_SharedStack(element_dict, i, cmp) ==
    StoreResult(element_dict, i,
                evaluate_element(element_dict[i].name, cmp, Leaked(element_dict), element_dict))

\* one round of the loop of recalc_all, on the i-th entry of the registry
RecalcStep(element_dict, i, cmp) ==
    StoreResult(element_dict, i, evaluate_element(element_dict[i].name, cmp, {}, element_dict))

RECURSIVE RecalcFrom(_, _, _)

RecalcNext(s, i) == RecalcFrom(s.els, i + 1, s.computed)

RecalcFrom(element_dict, i, cmp) ==
    IF i > Len(element_dict) THEN [els |-> element_dict, computed |-> cmp]
    ELSE RecalcNext(RecalcStep(element_dict, i, cmp), i)

\* the elements after the pass
recalc_all(element_dict) == RecalcFrom(element_dict, 1, EmptyMap).els

-----------------------------------------------------------------------------
(* format(raw_result, ".Ne" / ".Nf") and apply_current_format_to_all *)

RECURSIVE Pow10(_)
Pow10(e) == IF e = 0 THEN 1 ELSE 10 * Pow10(e - 1)

\* n/d (n >= 0, d > 0) rounded to an integer, ties to even
RoundHalfEven(n, d) ==
    IF 2 * (n % d) > d THEN (n \div d) + 1
    ELSE IF 2 * (n % d) < d THEN n \div d
    ELSE IF (n \div d) % 2 = 0 THEN n \div d ELSE (n \div d) + 1

Sign(n) == IF n < 0 THEN -1 ELSE 1

\* format(v, ".{dec}f"): the digits of v scaled by 10^dec
FormatFix(v, dec) ==
    Disp("fix", "", PyInt(Sign(v.n) * RoundHalfEven(Abs(v.n) * Pow10(dec), v.d)), dec, 0)

\* e with 10^e <= n/d < 10^(e+1), for n, d > 0
RECURSIVE Log10Floor(_, _)
Log10Floor(n, d) ==
    IF n >= 10 * d THEN Log10Floor(n, 10 * d) + 1
    ELSE IF n < d THEN Log10Floor(10 * n, d) - 1
    ELSE 0

SciDigits(n, d, e, dec) ==
    IF e >= 0 THEN RoundHalfEven(n * Pow10(dec), d * Pow10(e))
    ELSE RoundHalfEven(n * Pow10(dec) * Pow10(-e), d)

\* mantissa digits and exponent; a mantissa rounded up to 10 moves to the next exponent
SciNormal(sign, m, e, dec) ==
    IF m = Pow10(dec + 1) THEN Disp("sci", "", PyInt(sign * Pow10(dec)), dec, e + 1)
    ELSE Disp("sci", "", PyInt(sign * m), dec, e)

SciAt(v, e, dec) == SciNormal(Sign(v.n), SciDigits(Abs(v.n), v.d, e, dec), e, dec)

\* format(v, ".{dec}e")
FormatSci(v, dec) ==
    IF v.n = 0 THEN Disp("sci", "", PyInt(0), dec, 0)
    ELSE SciAt(v, Log10Floor(Abs(v.n), v.d), dec)

\* format() raising on a negative precision ("Format specifier missing precision")
ValueError == Disp("ValueError", "", None, 0, 0)

\* lines 505-515 for one element: the new result, or ValueError when format() raises
FormatOne(el, fmt, dec) ==
    IF IsIntOrFloat(el.raw_result)
    THEN IF fmt = "SCI"
         THEN IF dec < 0 THEN ValueError ELSE FormatSci(el.raw_result, dec)
         ELSE IF fmt = "FIX"
         THEN IF dec < 0 THEN ValueError ELSE FormatFix(el.raw_result, dec)
         ELSE Str(el.raw_result)
    ELSE IF IsBool(el.raw_result) THEN Str(el.raw_result)
    ELSE el.result

RECURSIVE FormatFrom(_, _, _, _)

FormatStore(els, i, fmt, dec, r) ==
    IF r = ValueError THEN [exc |-> TRUE, els |-> els]
    ELSE FormatFrom([els EXCEPT ![i].result = r], i + 1, fmt, dec)

FormatFrom(els, i, fmt, dec) ==
    IF i > Len(els) THEN [exc |-> FALSE, els |-> els]
    ELSE FormatStore(els, i, fmt, dec, FormatOne(els[i], fmt, dec))

\* the elements after the loop, and whether format() raised on the way
apply_current_format_to_all(els, fmt, dec) == FormatFrom(els, 1, fmt, dec)

\* MainWindow.recalculate_all: recalc_all, then the format applied
recalculate_all(els, fmt, dec) == apply_current_format_to_all(recalc_all(els), fmt, dec)

-----------------------------------------------------------------------------
(* Texts: the decimals box, "E" + str(n), int(name[1:]) *)

Digits == <<"0", "1", "2", "3", "4", "5", "6", "7", "8", "9">>
IsDigit(c) == \E i \in 1..10 : Digits[i] = c
DigitVal(c) == (CHOOSE i \in 1..10 : Digits[i] = c) - 1

RECURSIVE DigitsVal(_)
DigitsVal(cs) ==
    IF cs = <<>> THEN 0
    ELSE DigitsVal(SubSeq(cs, 1, Len(cs) - 1)) * 10 + DigitVal(cs[Len(cs)])

RECURSIVE NatText(_)
NatText(n) == IF n < 10 THEN <<Digits[n + 1]>> ELSE NatText(n \div 10) \o <<Digits[(n % 10) + 1]>>

\* str(n)
IntText(n) == IF n < 0 THEN <<"-">> \o NatText(-n) ELSE NatText(n)

RECURSIVE LStrip(_)
LStrip(cs) == IF cs # <<>> /\ Head(cs) = " " THEN LStrip(Tail(cs)) ELSE cs

RECURSIVE RStrip(_)
RStrip(cs) ==
    IF cs # <<>> /\ cs[Len(cs)] = " " THEN RStrip(SubSeq(cs, 1, Len(cs) - 1)) ELSE cs

\* text.strip()
Strip(cs) == RStrip(LStrip(cs))

AllDigits(cs) == cs # <<>> /\ \A i \in 1..Len(cs) : IsDigit(cs[i])

\* int(text) succeeds: an optional sign, then digits
IsIntText(cs) ==
    IF cs # <<>> /\ Head(cs) \in {"-", "+"} THEN AllDigits(Tail(cs)) ELSE AllDigits(cs)

IntOf(cs) ==
    IF Head(cs) = "-" THEN -DigitsVal(Tail(cs))
    ELSE IF Head(cs) = "+" THEN DigitsVal(Tail(cs))
    ELSE DigitsVal(cs)

\* the names add_element gives: "E" + str(n)
NameTable == <<"E1", "E2", "E3", "E4", "E5", "E6">>
ElementName(n) == NameTable[n]

\* int(name[1:]) succeeds
HasIntSuffix(name) == \E n \in 1..Len(NameTable) : NameTable[n] = name
SuffixInt(name) == CHOOSE n \in 1..Len(NameTable) : NameTable[n] = name

-----------------------------------------------------------------------------
(* The registry *)

\* VisualElementItem.__init__
VisualElementItem(name, content) ==
    [name |-> name, content |-> content, raw_result |-> None, result |-> EmptyStr]

IndexOf(els, name) == CHOOSE i \in 1..Len(els) : els[i].name = name

\* self.elements[name] = ve: a present key keeps its place in the dict
DictSet(els, name, ve) ==
    IF name \in Names(els) THEN [els EXCEPT ![IndexOf(els, name)] = ve]
    ELSE Append(els, ve)

\* del self.elements[name] for every name of removed
DictRemove(els, removed) == SelectSeq(els, LAMBDA e : e.name \notin removed)

-----------------------------------------------------------------------------
(* Inputs *)

\* the sequences that list every member of S once
Perms(S) == {f \in [1..Cardinality(S) -> S] : \A i, j \in 1..Cardinality(S) : f[i] = f[j] => i = j}

\* the element references of a content: its identifiers without math and IF (lines 74-75)
Refs(content) == get_dependencies(content) \ {"math", "IF"}

\* every way a process may order the dependency set of each content of a catalogue
RECURSIVE Seeds(_)
Seeds(catalogue) ==
    IF catalogue = {} THEN {EmptyMap}
    ELSE LET c == CHOOSE x \in catalogue : TRUE
         IN  {(c :> p) @@ f : p \in Perms(Refs(c)), f \in Seeds(catalogue \ {c})}

\* contents typed into the edit dialog
EditContents == {<<"5">>, <<"E1">>, <<"E2", "+", "Z">>, <<"1", "<", "2">>}

\* contents of the <Element> entries of a file
FileContents == {<<"E1">>, <<"1", "<", "2">>}

\* the content add_element gives (line 403)
NewContent == <<"0">>

\* format and decimals attributes of a file
FileSettings == {<<"NONE", <<"3">>>>, <<"FIX", <<"2">>>>, <<"SCI", <<"-", "1">>>>, <<"FIX", <<"x">>>>}

FileNames == {ElementName(n) : n \in 1..MaxCounter}

FileEntries == {[name |-> n, content |-> c] : n \in FileNames, c \in FileContents}

SeqsUpTo(S, n) == UNION {[1..k -> S] : k \in 0..n}

Files ==
    {[format |-> fs[1], decimals |-> fs[2], entries |-> es] :
        fs \in FileSettings, es \in SeqsUpTo(FileEntries, MaxFileLen)}

\* texts typed into the decimals box
BoxTexts == {<<" ">>, <<"-", "1">>, <<" ", "2">>}

-----------------------------------------------------------------------------
(* The handlers of MainWindow *)

\* the end of a handler that calls recalculate_all or apply_current_format_to_all:
\* r is what the call left; an exception format() raises leaves the handler
Returns(r) ==
    /\ elements' = r.els
    /\ pc' = IF r.exc THEN "aborted" ELSE "idle"

Init ==
    /\ elements = <<>>
    /\ element_counter = 1
    /\ current_format = "NONE"
    /\ decimals = 3
    /\ decimals_box = IntText(3)
    /\ hashseed \in Seeds(EditContents \cup FileContents \cup {NewContent})
    /\ computed = EmptyMap
    /\ idx = 0
    /\ pc = "idle"

add_element ==
    /\ pc = "idle"
    /\ element_counter <= MaxCounter
    /\ element_counter' = element_counter + 1
    /\ Returns(recalculate_all(
           DictSet(elements, ElementName(element_counter),
                   VisualElementItem(ElementName(element_counter), NewContent)),
           current_format, decimals))
    /\ UNCHANGED <<current_format, decimals, decimals_box, hashseed, computed, idx>>

\* VisualElementItem.mouseDoubleClickEvent on the i-th element: ok is the content
\* dialog's answer
mouseDoubleClickEvent(i, ok, new_content) ==
    /\ pc = "idle"
    /\ i \in 1..Len(elements)
    /\ Returns(recalculate_all(
           IF ok THEN [elements EXCEPT ![i].content = new_content] ELSE elements,
           current_format, decimals))
    /\ UNCHANGED <<element_counter, current_format, decimals, decimals_box, hashseed,
                   computed, idx>>

\* keyPressEvent without its call of recalculate_all
keyPressEvent_NoRecalc(sel) ==
    /\ pc = "idle"
    /\ sel \subseteq Names(elements)
    /\ elements' = DictRemove(elements, sel)
    /\ UNCHANGED <<element_counter, current_format, decimals, decimals_box, hashseed,
                   computed, idx, pc>>

\* MainWindow.keyPressEvent with Key_Delete and the elements named in sel selected
keyPressEvent(sel) ==
    /\ pc = "idle"
    /\ sel \subseteq Names(elements)
    /\ Returns(recalculate_all(DictRemove(elements, sel), current_format, decimals))
    /\ UNCHANGED <<element_counter, current_format, decimals, decimals_box, hashseed,
                   computed, idx>>

new_canvas ==
    /\ pc = "idle"
    /\ elements' = <<>>
    /\ element_counter' = 1
    /\ current_format' = "NONE"
    /\ decimals' = 3
    /\ decimals_box' = IntText(3)
    /\ UNCHANGED <<hashseed, computed, idx, pc>>

\* the counter moved only past a suffix that is greater than it
CounterAfter_Greater(name, counter) ==
    IF HasIntSuffix(name) /\ SuffixInt(name) > counter THEN SuffixInt(name) + 1 ELSE counter

\* lines 390-395
CounterAfter(name, counter) ==
    IF HasIntSuffix(name) /\ SuffixInt(name) >= counter THEN SuffixInt(name) + 1 ELSE counter

\* the loop over root.findall("Element") from its i-th entry on
RECURSIVE LoadEntries(_, _, _, _)
LoadEntries(entries, i, els, counter) ==
    IF i > Len(entries) THEN [els |-> els, counter |-> counter]
    ELSE LoadEntries(entries, i + 1,
                     DictSet(els, entries[i].name,
                             VisualElementItem(entries[i].name, entries[i].content)),
                     CounterAfter(entries[i].name, counter))

LoadReturns(file, loaded) ==
    /\ element_counter' = loaded.counter
    /\ Returns(recalculate_all(loaded.els, file.format, IntOf(file.decimals)))

load_canvas(file) ==
    /\ pc = "idle"
    /\ current_format' = file.format
    /\ IF IsIntText(file.decimals)
       THEN /\ decimals' = IntOf(file.decimals)
            /\ decimals_box' = IntText(IntOf(file.decimals))
            /\ LoadReturns(file, LoadEntries(file.entries, 1, <<>>, 1))
       ELSE \* int() raises after new_canvas and the format assignment
            /\ decimals' = 3
            /\ decimals_box' = IntText(3)
            /\ elements' = <<>>
            /\ element_counter' = 1
            /\ pc' = "aborted"
    /\ UNCHANGED <<hashseed, computed, idx>>

\* the user replaces the text of the decimals box
EditDecimalsBox(text) ==
    /\ pc = "idle"
    /\ decimals_box' = text
    /\ UNCHANGED <<elements, element_counter, current_format, decimals, hashseed,
                   computed, idx, pc>>

\* read_decimals_box returns True
ReadsDecimals(text) == Strip(text) # <<>> /\ IsIntText(Strip(text))

SetFormat(fmt) ==
    /\ pc = "idle"
    /\ IF ReadsDecimals(decimals_box)
       THEN /\ decimals' = IntOf(Strip(decimals_box))
            /\ current_format' = fmt
            /\ Returns(apply_current_format_to_all(elements, fmt, IntOf(Strip(decimals_box))))
       ELSE UNCHANGED <<decimals, current_format, elements, pc>>
    /\ UNCHANGED <<element_counter, decimals_box, hashseed, computed, idx>>

set_sci_format == SetFormat("SCI")

set_fix_format == SetFormat("FIX")

Next ==
    \/ add_element
    \/ \E i \in 1..Len(elements), ok \in BOOLEAN, c \in EditContents :
          mouseDoubleClickEvent(i, ok, c)
    \/ \E sel \in SUBSET Names(elements) : keyPressEvent(sel)
    \/ new_canvas
    \/ \E file \in Files : load_canvas(file)
    \/ \E text \in BoxTexts : EditDecimalsBox(text)
    \/ set_sci_format
    \/ set_fix_format

Spec == Init /\ [][Next]_vars

-----------------------------------------------------------------------------
(* recalc_all, one round of its loop per step, on a registry as load_canvas builds it *)

\* formulas of the registries a pass is started on
PassContents ==
    {<<"5">>, <<"E1">>, <<"E2">>, <<"E3">>, <<"E1", "+", "E2">>, <<"E1", "+", "Z">>,
     <<"1", "/", "0">>, <<"E1", "+">>}

PassNames == {ElementName(n) : n \in 1..MaxElems}

\* the registries of k elements with distinct names, in every insertion order
RegistriesOf(names, contents, k) ==
    {[i \in 1..k |-> VisualElementItem(ns[i], cs[i])] :
        ns \in {f \in [1..k -> names] : \A i, j \in 1..k : f[i] = f[j] => i = j},
        cs \in [1..k -> contents]}

Registries(names, contents, n) == UNION {RegistriesOf(names, contents, k) : k \in 0..n}

PassStart(registries, catalogue) ==
    /\ elements \in registries
    /\ element_counter = 1
    /\ current_format = "NONE"
    /\ decimals = 3
    /\ decimals_box = IntText(3)
    /\ hashseed \in Seeds(catalogue)
    /\ computed = EmptyMap
    /\ idx = 0
    /\ pc = "pass"

InitPass == PassStart(Registries(PassNames, PassContents, MaxElems), PassContents)

PassStored(s) ==
    /\ elements' = s.els
    /\ computed' = s.computed

\* lines 100-108: the loop body on the next entry of the registry
PassStep ==
    /\ pc = "pass"
    /\ idx < Len(elements)
    /\ PassStored(RecalcStep(elements, idx + 1, computed))
    /\ idx' = idx + 1
    /\ UNCHANGED <<element_counter, current_format, decimals, decimals_box, hashseed, pc>>

\* the loop has met every entry: recalc_all returns
PassReturn ==
    /\ pc = "pass"
    /\ idx = Len(elements)
    /\ pc' = "done"
    /\ UNCHANGED <<elements, element_counter, current_format, decimals, decimals_box,
                   hashseed, computed, idx>>

NextPass == PassStep \/ PassReturn

SpecPass == InitPass /\ [][NextPass]_vars

-----------------------------------------------------------------------------
(* The dependency graph of a registry, and what each element denotes *)

ContentOf(els, name) == Lookup(els, name).content

\* the elements the element refers to directly
Succ(els, name) == Refs(ContentOf(els, name)) \cap Names(els)

RECURSIVE Closure(_, _)
Closure(els, S) ==
    IF (UNION {Succ(els, n) : n \in S}) \subseteq S THEN S
    ELSE Closure(els, S \cup UNION {Succ(els, n) : n \in S})

\* the elements the element depends on, directly or through others
Reach(els, name) == Closure(els, Succ(els, name))

OnCycle(els, name) == name \in Reach(els, name)

\* the element lies on a cycle or depends on an element that does
ReachesCycle(els, name) ==
    OnCycle(els, name) \/ \E m \in Reach(els, name) : OnCycle(els, m)

Acyclic(els) == \A n \in Names(els) : ~OnCycle(els, n)

\* the element refers to a name that no element has
RefsAbsent(els, name) == Refs(ContentOf(els, name)) \ Names(els)

RECURSIVE Den(_, _)

DenEnv(els, name) == [m \in Refs(ContentOf(els, name)) |-> Den(els, m).val]

\* what the content of the element denotes over the contents of the registry: a value,
\* or a failure when it depends on a cycle, on an absent name or on a failing element,
\* or when its own evaluation raises
Den(els, name) ==
    IF ReachesCycle(els, name) THEN Raise("Fails")
    ELSE IF IsFloatText(ContentOf(els, name)) THEN Ok(FloatOf(ContentOf(els, name)))
    ELSE IF RefsAbsent(els, name) # {} THEN Raise("Fails")
    ELSE IF \E m \in Succ(els, name) : Den(els, m).exc # "" THEN Raise("Fails")
    ELSE EvalFormula(ast_parse(ContentOf(els, name)), DenEnv(els, name))

Resolves(els, name) == Den(els, name).exc = ""

ErrorKinds == {"circ", "unknown", "evalerr"}

IsError(d) == d.k \in ErrorKinds

\* the element holds no value and shows an error message
HoldsError(el) == el.raw_result = None /\ IsError(el.result)

-----------------------------------------------------------------------------
(* C1 *)

\* the element holds what its current content denotes over the current registry
UpToDate(els, i) ==
    IF Resolves(els, els[i].name)
    THEN els[i].raw_result = Den(els, els[i].name).val /\ ~IsError(els[i].result)
    ELSE HoldsError(els[i])

\* C1: once add-element, edit-content, delete-element or load has returned, every
\* element of the registry holds the value its current content denotes over the current
\* contents of everything it transitively references, or no value and an error message
\* when that evaluation fails; nothing computed from an earlier content or from a
\* deleted element survives.
C1_ResultsUpToDate ==
    pc = "idle" => \A i \in 1..Len(elements) : UpToDate(elements, i)

\* E1's content has been edited to a comparison, and the element that refers to E1
\* holds the boolean it gives
C1_Witness ==
    /\ pc = "idle"
    /\ Len(elements) = 2
    /\ elements[1].name = "E1" /\ elements[1].content = <<"1", "<", "2">>
    /\ elements[2].content = <<"E1">> /\ elements[2].raw_result = PyBool(TRUE)

-----------------------------------------------------------------------------
(* C2 - C5: cycles and absent names, on the finished pass *)

\* the element fails on its own account: it refers to an absent name, or everything it
\* refers to resolves and its own parse or evaluation raises
OwnError(els, name) ==
    \/ RefsAbsent(els, name) # {}
    \/ /\ \A m \in Succ(els, name) : Resolves(els, m)
       /\ ~Resolves(els, name)

\* nothing the element depends on, itself included, fails on its own account
OnlyCyclesBelow(els, name) ==
    \A m \in Reach(els, name) \cup {name} : ~OwnError(els, m)

\* C2 as claimed: every element on a dependency cycle ends the pass with no value and a
\* circular-dependency message, whatever else its formula refers to.
C2_Claimed ==
    pc = "done" =>
        \A i \in 1..Len(elements) :
            OnCycle(elements, elements[i].name) =>
                elements[i].raw_result = None /\ elements[i].result.k = "circ"

\* C2 amended: every element on a dependency cycle ends the pass with no value and an
\* error message; the message is the circular-dependency one whenever no element it
\* depends on, itself included, refers to an absent name or fails in its own parse or
\* evaluation.
C2_CycleFails ==
    pc = "done" =>
        \A i \in 1..Len(elements) :
            OnCycle(elements, elements[i].name) =>
                /\ HoldsError(elements[i])
                /\ OnlyCyclesBelow(elements, elements[i].name) => elements[i].result.k = "circ"

\* a cycle of two elements and an element that refers to itself, all three with the
\* circular-dependency message
C2_Witness ==
    /\ pc = "done"
    /\ Len(elements) = 3
    /\ \A i \in 1..3 : OnCycle(elements, elements[i].name) /\ elements[i].result.k = "circ"
    /\ \E i \in 1..3 : elements[i].name \in Refs(elements[i].content)
    /\ \E i \in 1..3 : elements[i].name \notin Refs(elements[i].content)

RECURSIVE ClosureAvoiding(_, _, _)
ClosureAvoiding(els, S, avoid) ==
    IF ((UNION {Succ(els, n) : n \in S}) \ {avoid}) \subseteq S THEN S
    ELSE ClosureAvoiding(els, S \cup ((UNION {Succ(els, n) : n \in S}) \ {avoid}), avoid)

\* every cycle that can be reached from the element passes through it
AllCyclesThrough(els, name) ==
    \A m \in Reach(els, name) \ {name} :
        m \notin ClosureAvoiding(els, Succ(els, m) \ {name}, name)

\* C4 as claimed: the circular-dependency message an element on a cycle displays names
\* that element itself.
C4_Claimed ==
    pc = "done" =>
        \A i \in 1..Len(elements) :
            (OnCycle(elements, elements[i].name) /\ elements[i].result.k = "circ")
                => elements[i].result.name = elements[i].name

\* C4 amended: the circular-dependency message an element displays names an element on
\* a cycle that is the element or one it depends on; it names the element itself when
\* the element lies on a cycle and every cycle reachable from it passes through it (as
\* in a single cycle), in every iteration order.
C4_MessageNamesCycle ==
    pc = "done" =>
        \A i \in 1..Len(elements) :
            elements[i].result.k = "circ" =>
                /\ elements[i].result.name \in Reach(elements, elements[i].name) \cup {elements[i].name}
                /\ OnCycle(elements, elements[i].result.name)
                /\ (OnCycle(elements, elements[i].name)
                    /\ AllCyclesThrough(elements, elements[i].name))
                        => elements[i].result.name = elements[i].name

\* E1 and E2 refer to each other, E2 comes first in the registry, and each names itself
C4_Witness ==
    /\ pc = "done"
    /\ Len(elements) = 2
    /\ elements[1].name = "E2" /\ elements[1].content = <<"E1">>
    /\ elements[2].name = "E1" /\ elements[2].content = <<"E2">>
    /\ elements[1].result = CircularMsg("E2")
    /\ elements[2].result = CircularMsg("E1")

\* an unknown-variable error only comes from an absent name the element refers to, or
\* one that an element it depends on refers to
UnknownHasCause(els, i) ==
    els[i].result.k = "unknown" =>
        /\ els[i].raw_result = None
        /\ \E m \in Reach(els, els[i].name) \cup {els[i].name} :
              els[i].result.name \in RefsAbsent(els, m)

\* C5 as claimed: every element whose formula refers to an absent name ends the pass
\* with an unknown-variable error naming the absent name, and an element gets an
\* unknown-variable error only if it or an element it depends on refers to an absent name.
C5_Claimed ==
    pc = "done" =>
        \A i \in 1..Len(elements) :
            /\ RefsAbsent(elements, elements[i].name) # {} =>
                  /\ elements[i].result.k = "unknown"
                  /\ elements[i].result.name \in RefsAbsent(elements, elements[i].name)
            /\ UnknownHasCause(elements, i)

\* C5 amended: every element whose formula refers to an absent name ends the pass with
\* no value and an error message, which is the unknown-variable error naming an absent
\* name of its formula whenever every present element it refers to resolves to a value;
\* and an element gets an unknown-variable error only if it or an element it depends on
\* refers to an absent name.
C5_UnknownVariable ==
    pc = "done" =>
        \A i \in 1..Len(elements) :
            /\ RefsAbsent(elements, elements[i].name) # {} =>
                  /\ HoldsError(elements[i])
                  /\ (\A m \in Succ(elements, elements[i].name) : Resolves(elements, m)) =>
                        /\ elements[i].result.k = "unknown"
                        /\ elements[i].result.name \in RefsAbsent(elements, elements[i].name)
            /\ UnknownHasCause(elements, i)

\* an element refers to a present element with a value and to the absent Z and shows
\* the unknown-variable error for Z, and so does the element that refers to it
C5_Witness ==
    /\ pc = "done"
    /\ \E i, j \in 1..Len(elements) :
          /\ i # j
          /\ elements[i].content = <<"E1", "+", "Z">>
          /\ "E1" \in Names(elements) /\ Resolves(elements, "E1")
          /\ elements[i].result = UnknownMsg("Z")
          /\ elements[j].content = <<elements[i].name>>
          /\ elements[j].result = UnknownMsg("Z")

-----------------------------------------------------------------------------
(* C6, C7: failures and iteration order, on the stepwise pass *)

\* the registry as load_canvas builds it: every element without a result yet
Fresh(els) == [i \in 1..Len(els) |-> VisualElementItem(els[i].name, els[i].content)]

\* the registry with the content of every failing element replaced by a number
Repaired(els) ==
    [i \in 1..Len(els) |->
        VisualElementItem(els[i].name,
                          IF Resolves(els, els[i].name) THEN els[i].content ELSE <<"5">>)]

SameValues(r, els) ==
    \A i \in 1..Len(els) :
        Resolves(els, els[i].name) =>
            els[i].raw_result # None /\ els[i].raw_result = r[i].raw_result

\* C6: a failure while resolving one element is local: the loop goes on to every
\* remaining element, every element that resolves ends with the value it has in the
\* registry whose failing elements are replaced by elements that do not fail, and the
\* computed cache holds exactly the values of the resolved elements met so far, never an
\* entry for an element whose resolution failed.
C6_FailuresLocal ==
    /\ \A n \in DOMAIN computed :
          n \in Names(elements) /\ Resolves(elements, n) /\ computed[n] = Den(elements, n).val
    /\ \A i \in 1..Len(elements) :
          /\ i <= idx => elements[i].result # EmptyStr
          /\ (i <= idx /\ Resolves(elements, elements[i].name)) => elements[i].name \in DOMAIN computed
          /\ i > idx => elements[i].result = EmptyStr
    /\ pc = "done" =>
          /\ idx = Len(elements)
          /\ SameValues(recalc_all(Repaired(elements)), elements)

\* the first element fails, the second one holds a value and the third one, which
\* depends on the first, fails with it
C6_Witness ==
    /\ pc = "done"
    /\ Len(elements) = 3
    /\ elements[1].result = EvalErrorMsg("ZeroDivisionError")
    /\ elements[2].raw_result = PyFloat(5)
    /\ elements[3].content = <<elements[1].name>>
    /\ elements[3].result = EvalErrorMsg("ZeroDivisionError")
    /\ DOMAIN computed = {elements[2].name}

Permuted(els, p) == [i \in 1..Len(els) |-> Fresh(els)[p[i]]]

SameResults(r, els, p) ==
    \A i \in 1..Len(els) :
        /\ r[i].name = els[p[i]].name
        /\ r[i].raw_result = els[p[i]].raw_result
        /\ r[i].result = els[p[i]].result

\* C7: the raw_result and the display result every element has after a pass do not
\* depend on the order in which the registry is iterated: the pass over the same
\* name-to-content mapping in any other order gives every element the same value or the
\* same error.
C7_OrderIndependent ==
    pc = "done" =>
        \A p \in Perms(1..Len(elements)) :
            SameResults(recalc_all(Permuted(elements, p)), elements, p)

\* a registry of three elements in which a dependent with a value comes before what
\* it depends on, and the third element fails
C7_Witness ==
    /\ pc = "done"
    /\ Len(elements) = 3
    /\ elements[2].name \in Refs(elements[1].content)
    /\ elements[1].raw_result # None
    /\ IsError(elements[3].result)

-----------------------------------------------------------------------------
(* C8: the pass run again *)

\* C8: for an acyclic registry, running the recalculation pass again without a change
\* of content or of the format setting leaves every element with the raw_result and the
\* display result it had.
C8_Idempotent ==
    (pc = "idle" /\ Acyclic(elements)) =>
        recalculate_all(elements, current_format, decimals) = [exc |-> FALSE, els |-> elements]

\* an acyclic registry under the FIX format with a formatted value and an element that
\* failed
C8_Witness ==
    /\ pc = "idle"
    /\ Acyclic(elements)
    /\ current_format = "FIX"
    /\ Len(elements) = 2
    /\ \E i, j \in 1..2 : elements[i].result.k = "fix" /\ IsError(elements[j].result)

-----------------------------------------------------------------------------
(* C9: the caret *)

CaretOperands == {"0", "1", "2", "3"}
CaretExponents == {"0", "1", "2"}

\* a ^ b and a ^ b ^ c
CaretContents ==
    {<<a, "^", b>> : a \in CaretOperands, b \in CaretOperands}
    \cup {<<a, "^", b, "^", c>> : a \in CaretOperands, b \in CaretOperands, c \in CaretExponents}

InitCaret == PassStart(RegistriesOf({ElementName(1)}, CaretContents, 1), CaretContents)

SpecCaret == InitCaret /\ [][NextPass]_vars

SameNumber(v, w) == IsNumber(v) /\ IsNumber(w) /\ v.n = w.n /\ v.d = w.d

Num(t) == PyInt(NumTok[t])

\* a ** b, and a ** (b ** c)
Power(a, b) == PyPow(Num(a), Num(b)).val
PowerTower(a, b, c) == PyPow(Num(a), PyPow(Num(b), Num(c)).val).val

\* C9 as claimed: a formula a ^ b evaluates to a ** b, and a formula a ^ b ^ c to
\* a ** (b ** c): the caret is right-associative exponentiation.
C9_Claimed ==
    pc = "done" =>
        \A i \in 1..Len(elements) :
            /\ Len(elements[i].content) = 3 =>
                  SameNumber(elements[i].raw_result,
                             Power(elements[i].content[1], elements[i].content[3]))
            /\ Len(elements[i].content) = 5 =>
                  SameNumber(elements[i].raw_result,
                             PowerTower(elements[i].content[1], elements[i].content[3],
                                        elements[i].content[5]))

-----------------------------------------------------------------------------
(* C10: booleans on display *)

\* C10 as claimed: an element whose raw result is a boolean is displayed as the word
\* True or False in every format mode and for every decimals setting.
C10_Claimed ==
    pc = "idle" =>
        \A i \in 1..Len(elements) :
            IsBool(elements[i].raw_result) => elements[i].result = Str(elements[i].raw_result)

-----------------------------------------------------------------------------
(* The pass on registries of a catalogue of formulas *)

\* the contents a registry holds
ContentsOf(els) == {els[i].content : i \in 1..Len(els)}

\* a pass about to start on one of the registries, in a process that has fixed the
\* iteration order of the dependency set of every content of the registry
PassStartOn(registries) ==
    /\ elements \in registries
    /\ element_counter = 1
    /\ current_format = "NONE"
    /\ decimals = 3
    /\ decimals_box = IntText(3)
    /\ hashseed \in Seeds(ContentsOf(elements))
    /\ computed = EmptyMap
    /\ idx = 0
    /\ pc = "pass"

\* everything the content refers to is an element that resolves to a value
RefsResolve(els, content) ==
    /\ Refs(content) \subseteq Names(els)
    /\ \A m \in Refs(content) : Resolves(els, m)

\* the values of the elements the content refers to
EnvOf(els, content) == [m \in Refs(content) |-> Den(els, m).val]

-----------------------------------------------------------------------------
(* C11: division by zero *)

DivContents ==
    {<<"0">>, <<"2">>, <<"1", "/", "0">>, <<"E1", "/", "E2">>, <<"E1", "-", "2">>,
     <<"2", "/", "(", "E1", "-", "E1", ")">>}

InitDiv == PassStartOn(Registries(PassNames, DivContents, MaxElems))

SpecDiv == InitDiv /\ [][NextPass]_vars

\* the content is a quotient x / d of two operands
IsQuotient(content) ==
    /\ Len(content) >= 3
    /\ content[2] = "/"
    /\ TopOps(content) = {2}

Divisor(content) == SubSeq(content, 3, Len(content))

\* the content is a quotient, everything it refers to has a value, and its divisor is zero
DividesByZero(els, content) ==
    /\ IsQuotient(content)
    /\ RefsResolve(els, content)
    /\ EvalFormula(ast_parse(Divisor(content)), EnvOf(els, content)).exc = ""
    /\ EvalFormula(ast_parse(Divisor(content)), EnvOf(els, content)).val.n = 0

\* C11: an element whose formula divides by zero ends the pass with no value and the
\* division-by-zero evaluation error as its display result, and no element ends the pass
\* with an infinite or undefined number as its value.
C11_DivisionByZero ==
    pc = "done" =>
        \A i \in 1..Len(elements) :
            /\ elements[i].raw_result.d # 0
            /\ DividesByZero(elements, elements[i].content) =>
                  /\ elements[i].raw_result = None
                  /\ elements[i].result = EvalErrorMsg("ZeroDivisionError")

\* 1/0, a quotient of two elements whose divisor holds zero, and the element that
\* holds zero
C11_Witness ==
    /\ pc = "done"
    /\ Len(elements) = 3
    /\ \E i, j, k \in 1..3 :
          /\ elements[i].content = <<"1", "/", "0">>
          /\ elements[i].result = EvalErrorMsg("ZeroDivisionError")
          /\ elements[j].content = <<"E1", "/", "E2">>
          /\ elements[j].result = EvalErrorMsg("ZeroDivisionError")
          /\ elements[k].name = "E2" /\ elements[k].raw_result = PyFloat(0)

-----------------------------------------------------------------------------
(* C12: the constructs a formula may use *)

RECURSIVE OutsideGrammar(_)
RECURSIVE AnyOutsideGrammar(_)

AnyOutsideGrammar(nodes) ==
    nodes # <<>> /\ (OutsideGrammar(Head(nodes)) \/ AnyOutsideGrammar(Tail(nodes)))

\* the tree holds a construct other than a numeric literal, a name, + - * / ^, unary
\* minus, a call of IF with three arguments and a call of math.<name>
OutsideGrammar(node) ==
    CASE node.k \in {"Constant", "Name"} -> FALSE
      [] node.k = "BinOp" -> OutsideGrammar(node.left) \/ OutsideGrammar(node.right)
      [] node.k = "UnaryOp" -> OutsideGrammar(node.operand)
      [] node.k = "Call" ->
            \/ AnyOutsideGrammar(node.args)
            \/ ~ \/ node.func.k = "Name" /\ node.func.id = "IF" /\ Len(node.args) = 3
                 \/ /\ node.func.k = "Attribute"
                    /\ node.func.value.k = "Name" /\ node.func.value.id = "math"
      [] OTHER -> TRUE

\* C12 as claimed: an element whose formula parses and uses a construct outside the
\* allow-listed grammar, a comparison for one, ends with no value and an error message.
C12_Claimed ==
    pc = "idle" =>
        \A i \in 1..Len(elements) :
            (ast_parse(elements[i].content).k # "SyntaxError"
             /\ OutsideGrammar(ast_parse(elements[i].content)))
                => HoldsError(elements[i])

-----------------------------------------------------------------------------
(* C13: get_dependencies *)

DepsContents ==
    {<<"5">>, <<"E1", "+", "Z">>, <<"-", "E2">>, <<"E1", "+">>, <<"(", "E1">>,
     <<"IF", "(", "E1", ",", "2", ",", "E2", ")">>,
     <<"math", ".", "pi", "*", "E1">>,
     <<"math", ".", "sqrt", "(", "E2", ")">>,
     <<"[", "E1", ",", "Z", "]">>}

FormulaNames == {ElementName(n) : n \in 1..MaxFormulaElems}

InitDeps == PassStartOn(Registries(FormulaNames, DepsContents, MaxFormulaElems))

SpecDeps == InitDeps /\ [][NextPass]_vars

\* the content is an expression ast.parse accepts
Parses(content) == ast_parse(content).k # "SyntaxError"

\* the identifiers the text uses as names: its identifier tokens that do not follow a
\* dot (those are attribute names)
Identifiers(content) ==
    {content[i] : i \in {j \in 1..Len(content) :
        IsIdent(content[j]) /\ (j = 1 \/ content[j - 1] # ".")}}

\* C13 as claimed: on the content of every element the pass has met, get_dependencies
\* gives the identifiers the expression refers to without math and IF, and the empty
\* set on unparsable content or a numeric literal.
C13_Claimed ==
    \A i \in 1..idx :
        get_dependencies(elements[i].content) =
            IF Parses(elements[i].content)
            THEN Identifiers(elements[i].content) \ {"math", "IF"}
            ELSE {}

\* C13 amended: on the content of every element the pass has met, get_dependencies
\* gives exactly the identifiers the expression uses as names, math and IF among them
\* when the expression uses them (attribute names are no names), and the empty set on
\* unparsable content or a numeric literal; math and IF are left out by its callers,
\* which only then see the element references.
C13_Dependencies ==
    \A i \in 1..idx :
        /\ get_dependencies(elements[i].content) =
              IF Parses(elements[i].content) THEN Identifiers(elements[i].content) ELSE {}
        /\ Refs(elements[i].content) =
              IF Parses(elements[i].content)
              THEN Identifiers(elements[i].content) \ {"math", "IF"}
              ELSE {}
        /\ IsFloatText(elements[i].content) => get_dependencies(elements[i].content) = {}

\* a finished pass over a call of IF on two elements and unparsable content
C13_Witness ==
    /\ pc = "done"
    /\ Len(elements) = 2
    /\ get_dependencies(elements[1].content) = {"IF", "E1", "E2"}
    /\ ~Parses(elements[2].content)
    /\ get_dependencies(elements[2].content) = {}

-----------------------------------------------------------------------------
(* C14: the decimals in force *)

\* C14 as claimed: whenever a handler has formatted the results of a registry, or has
\* stopped in doing so, the decimals value in force is a non-negative integer.
C14_Claimed ==
    (elements # <<>> \/ pc = "aborted") => decimals >= 0

-----------------------------------------------------------------------------
(* C15: what a pass writes *)

\* the registry has the same names with the same contents, in the same order
SameEntries(a, b) ==
    /\ Len(a) = Len(b)
    /\ \A i \in 1..Len(a) : a[i].name = b[i].name /\ a[i].content = b[i].content

\* C15: a recalculation pass changes only the raw_result and the display result of
\* elements: every round of its loop, whether the element succeeds or fails, leaves the
\* names of the registry and the content of every element as they were.
C15_PassFrame == [][SameEntries(elements, elements')]_vars

\* a finished pass in which one element holds a value and two have failed
C15_Witness ==
    /\ pc = "done"
    /\ Len(elements) = 3
    /\ Cardinality({i \in 1..3 : HoldsError(elements[i])}) = 2
    /\ Cardinality({i \in 1..3 : elements[i].raw_result # None}) = 1

-----------------------------------------------------------------------------
(* C16: IF *)

\* IF(c, a, b) over small operands, and IF with a quotient by zero as a branch
IfContents ==
    {<<"IF", "(", c, ",", a, ",", b, ")">> :
        c \in {"0", "1", "E1"}, a \in {"2", "E2"}, b \in {"3", "Z"}}
    \cup {<<"IF", "(", "1", ",", "2", ",", "1", "/", "0", ")">>, <<"0">>, <<"5">>}

InitIf == PassStartOn(Registries(FormulaNames, IfContents, MaxFormulaElems))

SpecIf == InitIf /\ [][NextPass]_vars

\* the content is IF(c, a, b) with single tokens as arguments
IsIfCall(content) == Len(content) = 8 /\ content[1] = "IF"

IfArgs(content) == <<content[3], content[5], content[7]>>

\* what an argument token denotes: the literal, or the value of the element it names
ArgOf(els, t) ==
    IF IsNum(t) THEN Ok(PyInt(NumTok[t]))
    ELSE IF t \in Names(els) THEN Den(els, t)
    ELSE Raise("Fails")

\* the arguments that name no element
AbsentArgs(els, content) ==
    {t \in {IfArgs(content)[k] : k \in 1..3} : IsIdent(t) /\ t \notin Names(els)}

\* the arguments that name an element
ElementArgs(els, content) ==
    {t \in {IfArgs(content)[k] : k \in 1..3} : t \in Names(els)}

\* the value IF(c, a, b) has when all three arguments have one
IfValue(els, content) ==
    IF ArgOf(els, content[3]).val.n # 0
    THEN ArgOf(els, content[5]).val
    ELSE ArgOf(els, content[7]).val

\* C16: IF(c, a, b) yields the value of a when c is nonzero and the value of b
\* otherwise, once all three arguments are resolved and evaluated: an element whose IF
\* has a branch, taken or not, that names an absent element, lies on a cycle or divides
\* by zero ends the pass with no value and the corresponding error.
C16_EagerIf ==
    pc = "done" =>
        \A i \in 1..Len(elements) :
            /\ IsIfCall(elements[i].content) =>
                  IF \A k \in 1..3 : ArgOf(elements, IfArgs(elements[i].content)[k]).exc = ""
                  THEN elements[i].raw_result = IfValue(elements, elements[i].content)
                  ELSE /\ HoldsError(elements[i])
                       /\ (\A t \in ElementArgs(elements, elements[i].content) :
                              Resolves(elements, t))
                             => /\ elements[i].result.k = "unknown"
                                /\ elements[i].result.name
                                      \in AbsentArgs(elements, elements[i].content)
                       /\ (/\ AbsentArgs(elements, elements[i].content) = {}
                           /\ OnlyCyclesBelow(elements, elements[i].name))
                             => elements[i].result.k = "circ"
            /\ elements[i].content = <<"IF", "(", "1", ",", "2", ",", "1", "/", "0", ")">>
                  => /\ elements[i].raw_result = None
                     /\ elements[i].result = EvalErrorMsg("ZeroDivisionError")

\* IF(1, 2, Z) fails for the absent Z of the branch not taken, and IF(0, 2, 3) holds 3
C16_Witness ==
    /\ pc = "done"
    /\ Len(elements) = 2
    /\ elements[1].content = <<"IF", "(", "1", ",", "2", ",", "Z", ")">>
    /\ elements[1].result = UnknownMsg("Z")
    /\ elements[2].content = <<"IF", "(", "0", ",", "2", ",", "3", ")">>
    /\ elements[2].raw_result = PyInt(3)

-----------------------------------------------------------------------------
(* C17: the pass comes to its end *)

\* numbers, references that form cycles and self-references, and an absent name
LoopContents == {<<"5">>, <<"E1">>, <<"E2">>, <<"E1", "+", "Z">>}

InitLoop == PassStartOn(Registries(FormulaNames, LoopContents, MaxFormulaElems))

\* recalc_all runs on the one thread of the program, without waiting for anything:
\* a round of its loop that can be taken is taken
SpecPassFair == InitLoop /\ [][NextPass]_vars /\ WF_vars(NextPass)

\* the element has been given a value or an error message
Assigned(el) ==
    \/ el.raw_result # None /\ el.result = Str(el.raw_result)
    \/ HoldsError(el)

\* C17: for every registry, those with cycles, self-references and absent names
\* included, the pass comes to its end, and then every element has been given a value
\* or an error message in that pass.
C17_PassTerminates ==
    <>(pc = "done" /\ \A i \in 1..Len(elements) : Assigned(elements[i]))

\* a finished pass over an element that refers to itself and one that refers to it
\* and to an absent name
C17_Witness ==
    /\ pc = "done"
    /\ Len(elements) = 2
    /\ \E i, j \in 1..2 :
          /\ elements[i].name \in Refs(elements[i].content)
          /\ elements[i].result = CircularMsg(elements[i].name)
          /\ RefsAbsent(elements, elements[j].name) # {}
          /\ HoldsError(elements[j])

-----------------------------------------------------------------------------
(* C18: one evaluation per element and pass *)

RECURSIVE EvaluatedBy(_, _, _, _)
RECURSIVE EvaluatedInDeps(_, _, _, _, _)

\* the evaluations of the i-th dependency, then those of the later ones unless the
\* call r for the i-th raised
EvaluatedAfter(r, deps, i, cmp, stack, element_dict) ==
    EvaluatedBy(deps[i], cmp, stack, element_dict)
    \o (IF r.exc # NoExc THEN <<>>
        ELSE EvaluatedInDeps(deps, i + 1, r.computed, r.stack, element_dict))

\* the names whose content the loop "for dep in deps" evaluates from its i-th round on
EvaluatedInDeps(deps, i, cmp, stack, element_dict) ==
    IF i > Len(deps) THEN <<>>
    ELSE IF deps[i] \in {"math", "IF"}
    THEN EvaluatedInDeps(deps, i + 1, cmp, stack, element_dict)
    ELSE IF deps[i] \in Names(element_dict)
    THEN EvaluatedAfter(evaluate_element(deps[i], cmp, stack, element_dict),
                        deps, i, cmp, stack, element_dict)
    ELSE <<>>

\* the names, in order, whose content one call of evaluate_element evaluates: a call
\* that gets past the two checks of lines 59-62 evaluates the content of its element
EvaluatedBy(name, cmp, stack, element_dict) ==
    IF name \in DOMAIN cmp \/ name \in stack THEN <<>>
    ELSE <<name>>
         \o (IF IsFloatText(Lookup(element_dict, name).content) THEN <<>>
             ELSE EvaluatedInDeps(IterOrder(Lookup(element_dict, name).content, hashseed),
                                  1, cmp, stack \cup {name}, element_dict))

RECURSIVE EvaluatedFrom(_, _, _)

EvaluatedNext(s, element_dict, i) == EvaluatedFrom(element_dict, i + 1, s.computed)

\* the names whose content the pass evaluates from the i-th round of its loop on
EvaluatedFrom(element_dict, i, cmp) ==
    IF i > Len(element_dict) THEN <<>>
    ELSE EvaluatedBy(element_dict[i].name, cmp, {}, element_dict)
         \o EvaluatedNext(RecalcStep(element_dict, i, cmp), element_dict, i)

\* the names whose content a whole pass over the registry evaluates
EvaluatedInPass(element_dict) == EvaluatedFrom(element_dict, 1, EmptyMap)

Count(x, seq) == Cardinality({k \in 1..Len(seq) : seq[k] = x})

\* a request for the element is answered from the cache, which stays as it is
CacheHit(name) ==
    /\ name \in DOMAIN computed
    /\ evaluate_element(name, computed, {}, elements)
          = [exc |-> NoExc, val |-> computed[name], computed |-> computed, stack |-> {}]

\* C18: within one pass, an element whose resolution succeeds has its content evaluated
\* exactly once; every later request for it, from the loop of the pass or from the
\* dependency resolution of another element, is answered from the computed cache with
\* the value the element holds.
C18_EvaluatedOnce ==
    pc = "done" =>
        \A i \in 1..Len(elements) :
            elements[i].raw_result # None =>
                /\ Count(elements[i].name, EvaluatedInPass(elements)) = 1
                /\ CacheHit(elements[i].name)
                /\ computed[elements[i].name] = elements[i].raw_result

\* the sum of E1 and E2 comes first in the registry, E1 refers to E2 and E2 is a
\* number: E2 is asked for three times
C18_Witness ==
    /\ pc = "done"
    /\ Len(elements) = 3
    /\ elements[1].content = <<"E1", "+", "E2">> /\ elements[1].raw_result = PyFloat(10)
    /\ \E i, j \in 2..3 :
          /\ elements[i].name = "E1" /\ elements[i].content = <<"E2">>
          /\ elements[j].name = "E2" /\ elements[j].content = <<"5">>

-----------------------------------------------------------------------------
(* C19: a change of the display mode *)

\* the raw result is a number of the spreadsheet: an int or a float that is no boolean
IsNumeric(v) == v.t \in {"int", "float"}

\* a and b differ at most in the display results of elements whose raw result is a
\* number; names, contents and raw results are the same, and an element without a
\* value keeps its message
OnlyNumbersRedisplayed(a, b) ==
    /\ SameEntries(a, b)
    /\ \A i \in 1..Len(a) :
          /\ b[i].raw_result = a[i].raw_result
          /\ a[i].raw_result = None => b[i].result = a[i].result
          /\ b[i].result # a[i].result => IsNumeric(a[i].raw_result)

\* C19 as claimed: pressing SCI or FIX changes only the display results of elements
\* whose raw result is a number: no raw_result changes, and every element without a
\* value keeps the error message the last recalculation stored.
C19_Claimed ==
    [][(set_sci_format \/ set_fix_format) => OnlyNumbersRedisplayed(elements, elements')]_vars

-----------------------------------------------------------------------------
(* C20: no cycle found where there is none *)

\* C20: at every point of the pass, an element the loop has met shows the
\* circular-dependency error only if it lies on a dependency cycle or transitively
\* depends on an element that does: neither the names a failed resolution left in
\* progress nor a dependency reached twice along different paths is taken for a cycle.
C20_NoFalseCycle ==
    \A i \in 1..idx :
        elements[i].result.k = "circ" =>
            /\ elements[i].raw_result = None
            /\ ReachesCycle(elements, elements[i].name)

\* the first element fails for the absent Z after E1 has been resolved for it, the
\* second one refers to the first and fails for Z as well, and E1, met a second time
\* by the loop, holds its value
C20_Witness ==
    /\ pc = "done"
    /\ Len(elements) = 3
    /\ elements[1].content = <<"E1", "+", "Z">> /\ elements[1].result = UnknownMsg("Z")
    /\ elements[2].content = <<elements[1].name>> /\ elements[2].result = UnknownMsg("Z")
    /\ elements[3].name = "E1" /\ elements[3].raw_result = PyFloat(5)

-----------------------------------------------------------------------------
(* C21: the names add_element gives *)

\* names of the entries of a file: of the form E<integer>, with a gap, and one without
\* an integer after its first character
LoadNames == {"E1", "E3", "Ex"}

LoadFileEntries == {[name |-> n, content |-> c] : n \in LoadNames, c \in {<<"5">>, <<"E1">>}}

LoadFiles ==
    {[format |-> "NONE", decimals |-> <<"3">>, entries |-> es] :
        es \in SeqsUpTo(LoadFileEntries, MaxFileLen)}

\* new canvas, load, add element and delete element, in any order
NextNames ==
    \/ new_canvas
    \/ \E file \in LoadFiles : load_canvas(file)
    \/ add_element
    \/ \E sel \in SUBSET Names(elements) : keyPressEvent(sel)

SpecNames == Init /\ [][NextNames]_vars

\* C21: after any sequence of new canvas, load, add element and delete element, the
\* element counter is greater than the integer after the E of every name of the form
\* E<integer> in the registry, so the name add_element would give is not in the
\* registry and adding never overwrites an element.
C21_FreshName ==
    /\ \A n \in Names(elements) : HasIntSuffix(n) => SuffixInt(n) < element_counter
    /\ element_counter >= 1
    /\ element_counter <= Len(NameTable) => ElementName(element_counter) \notin Names(elements)

\* E1 came from a file and add_element has put E2 next to it
C21_Witness ==
    /\ pc = "idle"
    /\ Len(elements) = 2
    /\ elements[1].name = "E1" /\ elements[1].content = <<"5">>
    /\ elements[2].name = "E2" /\ elements[2].content = NewContent
    /\ element_counter = 3

====
